---- MODULE Spec2Model ----
(***************************************************************************)
(* Model of the ssh-packet crate: the packet codec (src/packet/mod.rs,     *)
(* src/packet/cipher.rs) and the primitive wire types (src/arch/*.rs).     *)
(*                                                                         *)
(* Bytes are integers in 0..255, buffers are sequences of bytes.           *)
(***************************************************************************)
EXTENDS Integers, Sequences, FiniteSets, TLC

VARIABLES
    cipher,     \* parameters of the cipher pair shared by both directions
    payload,    \* Packet.payload handed to to_async_writer
    wseq,       \* seq argument of to_async_writer
    wpc,        \* position of to_async_writer
    wbuf,       \* to_async_writer's local `buf` (and `compressed` before pad)
    wpad,       \* to_async_writer's local `padding`
    wmac,       \* to_async_writer's local `mac`
    wcalls,     \* cipher calls made by to_async_writer, in order
    wire,       \* bytes received by the writer / held by the reader's source
    written,    \* sizes of the write_all calls, in order
    fill,       \* the byte the cipher's random source gives `pad`
    forged,     \* the frame a non-conforming peer sends instead, or <<>>
    tampered,   \* index of the wire byte that had a bit flipped in transit, or 0
    rseq,       \* seq argument of from_async_reader
    rpc,        \* position of from_async_reader
    rpos,       \* read cursor of the byte source
    rbuf,       \* from_async_reader's local `buf`
    rmac,       \* from_async_reader's local `mac`
    rlen,       \* from_async_reader's local `len`
    rpayload,   \* from_async_reader's local `payload` before decompress
    ralloc,     \* largest size `buf` was given by vec!/resize
    reads,      \* sizes of the read_exact calls on the source, in order
    rcalls,     \* cipher calls made by from_async_reader, in order
    rres,       \* result of from_async_reader
    leg,        \* Packet::from_reader of src/packet.rs: its locals and result
    aleg,       \* Packet::from_async_reader of src/packet.rs, likewise
    padv,       \* one call of CipherCore::padding: its arguments and result
    arch,       \* one Bytes / MpInt value: its input, encoding and decoding
    idv,        \* an Id: displayed and parsed, a text parsed, or a stream read
    strm,       \* the packets written to one stream before the current one, the
                \* payloads read back from it, and where the current read began
    nl          \* a NameList, built from names or given as text, its iteration,
                \* and one call of NameList::preferred_in with its result

pvars == <<cipher, payload, wseq, wpc, wbuf, wpad, wmac, wcalls, wire, written,
           fill, forged, tampered, rseq, rpc, rpos, rbuf, rmac, rlen, rpayload, ralloc,
           reads,
           rcalls, rres>>

others == <<leg, aleg, padv, arch, nl, idv, strm>>

vars == <<pvars, others>>

----------------------------------------------------------------------------
(* Bounds of the model *)

MaxPayloadLen == 2
MaxBlockSize == 256
MaxPaddedLen == 256
MaxBufLen == 3
MaxTextLen == 4
MaxNames == 3
MaxUnits == 2
MaxPartLen == 2
MaxIdUnits == 6
MaxStreamUnits == 4
MaxFrames == 2
MaxStreamPayloadLen == 1
MaxWriterLen == 40
ArchBytes == {0, 1, 127, 128, 255}
NameChars == {",", "a", "b"}
PayloadBytes == {0, 1, 255}
SeqNumbers == {0, 1}
BlockSizes == {4, 8, 16}
MacSizes == {0, 2}
Keys == {0, 90}
PadFill == {0, 170}

----------------------------------------------------------------------------
(* Program constants *)

PACKET_MAX_SIZE == 65535
PACKET_MIN_SIZE == 16
MIN_PAD_SIZE == 4
MIN_ALIGN == 8

----------------------------------------------------------------------------
(* Helpers on integers and buffers *)

Max(a, b) == IF a >= b THEN a ELSE b

\* usize -> u8 conversion of `as u8`
AsU8(n) == n % 256

\* u32::to_be_bytes
ToBeBytes(n) ==
    <<(n \div 16777216) % 256, (n \div 65536) % 256, (n \div 256) % 256, n % 256>>

\* u32::from_be_bytes over the first four bytes of b. TLC's integers are 32-bit
\* signed: a value from 2^31 on is represented by 2^31 - 1, which its only use,
\* the comparison with PACKET_MAX_SIZE, does not tell apart.
FromBeBytes(b) ==
    IF b[1] >= 128 THEN 2147483647
    ELSE b[1] * 16777216 + b[2] * 65536 + b[3] * 256 + b[4]

\* b[lo..hi] with Rust's 0-based half-open bounds
Slice(b, lo, hi) == [i \in 1..(hi - lo) |-> b[lo + i]]

RECURSIVE SumBytes(_)
SumBytes(b) == IF b = <<>> THEN 0 ELSE b[1] + SumBytes(Tail(b))

Fill(n, v) == [i \in 1..n |-> v]

BufsUpTo(S, n) == UNION {[1..k -> S] : k \in 0..n}

----------------------------------------------------------------------------
(* CipherCore: src/packet/cipher.rs *)

\* mutant: the frame is not raised to the minimal packet size
PaddingUsizeNoMinimum(block_size, etm, len) ==
    LET align == Max(block_size, MIN_ALIGN)
        size == IF etm THEN 1 + len ELSE 4 + 1 + len
        padding0 == align - (size % align)
    IN  IF padding0 < MIN_PAD_SIZE THEN padding0 + align ELSE padding0

\* the value of `padding` computed in usize, before the `as u8` conversion
PaddingUsize(block_size, etm, len) ==
    LET align == Max(block_size, MIN_ALIGN)
        size == IF etm THEN 1 + len ELSE 4 + 1 + len
        padding0 == align - (size % align)
        padding == IF padding0 < MIN_PAD_SIZE THEN padding0 + align ELSE padding0
    IN  IF size + padding < Max(block_size, PACKET_MIN_SIZE)
        THEN padding + align
        ELSE padding

\* CipherCore::padding
Padding(block_size, etm, len) == AsU8(PaddingUsize(block_size, etm, len))

----------------------------------------------------------------------------
(* The cipher pair behind the OpeningCipher / SealingCipher traits: a       *)
(* byte-wise additive cipher under `key` (key 0 leaves bytes unchanged), a  *)
(* checksum MAC over the buffer and the sequence number, and a compression  *)
(* that frames the payload with one marker byte when `comp` is set.         *)

Ciphers == [block_size : BlockSizes, etm : BOOLEAN, mac_size : MacSizes,
            key : Keys, comp : BOOLEAN]

\* SealingCipher::encrypt
Encrypt(c, b) == [i \in 1..Len(b) |-> (b[i] + c.key) % 256]

\* OpeningCipher::decrypt
Decrypt(c, b) == [i \in 1..Len(b) |-> (b[i] + 256 - c.key) % 256]

\* SealingCipher::seal
Seal(c, b, seq) == [i \in 1..c.mac_size |-> (SumBytes(b) + 31 * seq + i) % 256]

\* OpeningCipher::open: TRUE when the MAC is the one of the buffer
Open(c, b, mac, seq) == mac = Seal(c, b, seq)

\* SealingCipher::compress
Compress(c, p) == IF c.comp THEN <<120>> \o p ELSE p

\* OpeningCipher::decompress fails on a payload compress cannot produce
DecompressOk(c, p) == ~c.comp \/ (Len(p) > 0 /\ p[1] = 120)

\* OpeningCipher::decompress
Decompress(c, p) == IF c.comp THEN Tail(p) ELSE p

\* SealingCipher::pad
Pad(p, padding, f) == <<padding>> \o p \o Fill(padding, f)

----------------------------------------------------------------------------
(* Inputs *)

Payloads == BufsUpTo(PayloadBytes, MaxPayloadLen)

\* frames of a peer that does not follow `pad`: a declared packet_length, a
\* padding_length byte and some zero bytes
ForgedLens == {0, 1, 4, 12, 65535, 65536, 70000}
ForgedPadLens == {0, 3, 4, 12, 255}
ForgedBodyLens == {0, 3, 11}

ForgedFrames ==
    {ToBeBytes(l) \o <<p>> \o Fill(n, 0) :
        l \in ForgedLens, p \in ForgedPadLens, n \in ForgedBodyLens}

NoResult == [kind |-> "none", payload |-> <<>>]

PadIdle == [block_size |-> 0, etm |-> FALSE, len |-> 0, usize |-> -1, out |-> -1,
            packet_length |-> -1]

ArchIdle == [op |-> "idle", in |-> <<>>, declared |-> 0, content |-> <<>>,
             enc |-> <<>>, enc2 |-> <<>>, ok |-> TRUE, dec |-> <<>>, n |-> 0,
             panicked |-> FALSE]

NlIdle == [a |-> <<>>, b |-> <<>>, done |-> FALSE, some |-> FALSE, out |-> <<>>,
           names |-> <<>>, built |-> "idle", enc |-> <<>>,
           iterated |-> FALSE, iter |-> <<>>]

LegIdle == [pc |-> "idle", pos |-> 0, len |-> 0, padlen |-> 0, reads |-> <<>>,
            calls |-> <<>>, res |-> "none", payload |-> <<>>, padding |-> <<>>,
            mac |-> <<>>, awaits |-> <<>>]

NoId == [protoversion |-> <<>>, softwareversion |-> <<>>,
         comments |-> [some |-> FALSE, text |-> <<>>]]

NoIdResult == [kind |-> "none", id |-> NoId]

IdIdle == [op |-> "idle", id |-> NoId, text |-> <<>>, res |-> NoIdResult,
           stream |-> <<>>, sync |-> NoIdResult, async |-> NoIdResult]

StrmIdle == [sent |-> <<>>, got |-> <<>>, start |-> 0]

OthersIdle ==
    /\ padv = PadIdle
    /\ arch = ArchIdle
    /\ nl = NlIdle
    /\ idv = IdIdle
    /\ strm = StrmIdle

Call(op, lo, hi, seq) == [op |-> op, lo |-> lo, hi |-> hi, seq |-> seq]

InitCommon ==
    /\ wpc = "compress"
    /\ wbuf = <<>>
    /\ wpad = 0
    /\ wmac = <<>>
    /\ wcalls = <<>>
    /\ wire = <<>>
    /\ written = <<>>
    /\ tampered = 0
    /\ rpc = "read_block"
    /\ rpos = 0
    /\ rbuf = <<>>
    /\ rmac = <<>>
    /\ rlen = 0
    /\ rpayload = <<>>
    /\ ralloc = 0
    /\ reads = <<>>
    /\ rcalls = <<>>
    /\ rres = NoResult
    /\ OthersIdle

Init ==
    /\ leg = [LegIdle EXCEPT !.pc = "read_len"]
    /\ aleg = [LegIdle EXCEPT !.pc = "read_len"]
    /\ cipher \in Ciphers
    /\ rseq \in SeqNumbers
    /\ \/ /\ payload \in Payloads
          /\ wseq \in SeqNumbers
          /\ fill \in PadFill
          /\ forged = <<>>
       \/ /\ payload = <<>>
          /\ wseq = 0
          /\ fill = 0
          /\ forged \in ForgedFrames
    /\ InitCommon

----------------------------------------------------------------------------
(* Packet::to_async_writer: src/packet/mod.rs *)

wlocals == <<wpc, wbuf, wpad, wmac, wcalls, wire, written>>
rlocals == <<rpc, rpos, rbuf, rmac, rlen, rpayload, ralloc, reads, rcalls, rres>>
inputs == <<cipher, payload, wseq, fill, forged, rseq>>

\* let compressed = cipher.compress(&self.payload)?;
WCompress ==
    /\ wpc = "compress"
    /\ forged = <<>>
    /\ wbuf' = Compress(cipher, payload)
    /\ wcalls' = Append(wcalls, Call("compress", 0, Len(payload), -1))
    /\ wpc' = "padding"
    /\ UNCHANGED <<wpad, wmac, wire, written, tampered, inputs, rlocals, others>>

\* let padding = cipher.padding(compressed.len());
WPadding ==
    /\ wpc = "padding"
    /\ wpad' = Padding(cipher.block_size, cipher.etm, Len(wbuf))
    /\ wcalls' = Append(wcalls, Call("padding", 0, Len(wbuf), -1))
    /\ wpc' = "pad"
    /\ UNCHANGED <<wbuf, wmac, wire, written, tampered, inputs, rlocals, others>>

\* mutant: the length field counts its own four bytes
FrameCountsLength(padded) == ToBeBytes(Len(padded) + 4) \o padded

\* the frame: the u32 length of pad's output, then pad's output
Frame(padded) == ToBeBytes(Len(padded)) \o padded

\* let buf = cipher.pad(compressed, padding)?; and the length prefix
WPad ==
    /\ wpc = "pad"
    /\ wbuf' = Frame(Pad(wbuf, wpad, fill))
    /\ wcalls' = Append(wcalls, Call("pad", 0, Len(wbuf), -1))
    /\ wpc' = "crypt1"
    /\ UNCHANGED <<wpad, wmac, wire, written, tampered, inputs, rlocals, others>>

\* a peer that builds its frame without compress, padding and pad
WForge ==
    /\ wpc = "compress"
    /\ forged # <<>>
    /\ wbuf' = forged
    /\ wpc' = "crypt1"
    /\ UNCHANGED <<wpad, wmac, wcalls, wire, written, tampered, inputs, rlocals, others>>

\* mutant: encrypt comes first whatever the MAC mode
WriteOrderEncryptFirst(etm) == <<"encrypt", "seal">>

\* the order of the two cipher calls of `if cipher.mac().etm() {..} else {..}`
WriteOrder(etm) == IF etm THEN <<"encrypt", "seal">> ELSE <<"seal", "encrypt">>

WritePc(etm, op) == IF WriteOrder(etm)[1] = op THEN "crypt1" ELSE "crypt2"

AfterCrypt(pc) == IF pc = "crypt1" THEN "crypt2" ELSE "frame"

\* cipher.encrypt(&mut buf[4..]) if ETM, cipher.encrypt(&mut buf[..]) if not
WEncrypt ==
    /\ wpc = WritePc(cipher.etm, "encrypt")
    /\ LET lo == IF cipher.etm THEN 4 ELSE 0
       IN  /\ wbuf' = Slice(wbuf, 0, lo) \o Encrypt(cipher, Slice(wbuf, lo, Len(wbuf)))
           /\ wcalls' = Append(wcalls, Call("encrypt", lo, Len(wbuf), -1))
    /\ wpc' = AfterCrypt(wpc)
    /\ UNCHANGED <<wpad, wmac, wire, written, tampered, inputs, rlocals, others>>

\* let mac = cipher.seal(&buf, seq)?;
WSeal ==
    /\ wpc = WritePc(cipher.etm, "seal")
    /\ wmac' = Seal(cipher, wbuf, wseq)
    /\ wcalls' = Append(wcalls, Call("seal", 0, Len(wbuf), wseq))
    /\ wpc' = AfterCrypt(wpc)
    /\ UNCHANGED <<wbuf, wpad, wire, written, tampered, inputs, rlocals, others>>

\* writer.write_all(&buf).await?;
WWriteFrame ==
    /\ wpc = "frame"
    /\ wire' = wire \o wbuf
    /\ written' = Append(written, Len(wbuf))
    /\ wpc' = "mac"
    /\ UNCHANGED <<wbuf, wpad, wmac, wcalls, tampered, inputs, rlocals, others>>

\* writer.write_all(&mac).await?;
WWriteMac ==
    /\ wpc = "mac"
    /\ wire' = wire \o wmac
    /\ written' = Append(written, Len(wmac))
    /\ wpc' = "done"
    /\ UNCHANGED <<wbuf, wpad, wmac, wcalls, tampered, inputs, rlocals, others>>

----------------------------------------------------------------------------
(* Packet::from_async_reader: src/packet/mod.rs *)

Result(kind) == [kind |-> kind, payload |-> <<>>]

\* reader.read_exact succeeds when the source still holds n bytes
CanRead(n) == Len(wire) - rpos >= n

\* let mut buf = vec![0; cipher.block_size()]; reader.read_exact(&mut buf[..])
RReadBlock ==
    /\ wpc = "done"
    /\ rpc = "read_block"
    /\ reads' = Append(reads, cipher.block_size)
    /\ ralloc' = cipher.block_size
    /\ IF CanRead(cipher.block_size)
       THEN /\ rbuf' = Slice(wire, rpos, rpos + cipher.block_size)
            /\ rpos' = rpos + cipher.block_size
            /\ rpc' = (IF cipher.etm THEN "parse_len" ELSE "decrypt_block")
            /\ rres' = rres
       ELSE /\ rres' = Result("io")
            /\ rpc' = "done"
            /\ rpos' = Len(wire)
            /\ rbuf' = rbuf
    /\ UNCHANGED <<rmac, rlen, rpayload, rcalls, tampered, inputs, wlocals, others>>

\* if !cipher.mac().etm() { cipher.decrypt(&mut buf[..])?; }
RDecryptBlock ==
    /\ rpc = "decrypt_block"
    /\ rbuf' = Decrypt(cipher, rbuf)
    /\ rcalls' = Append(rcalls, Call("decrypt", 0, Len(rbuf), -1))
    /\ rpc' = "parse_len"
    /\ UNCHANGED <<rpos, rmac, rlen, rpayload, ralloc, reads, rres, tampered,
                   inputs, wlocals, others>>

\* mutant: the cap is not enforced
TooLargeUnchecked(len) == FALSE

\* if len as usize > PACKET_MAX_SIZE
TooLarge(len) == len > PACKET_MAX_SIZE

\* let len = u32::from_be_bytes(buf[..4]); and the PACKET_MAX_SIZE check
RParseLen ==
    /\ rpc = "parse_len"
    /\ IF Len(rbuf) < 4
       THEN /\ rres' = Result("panic")
            /\ rpc' = "done"
            /\ rlen' = rlen
       ELSE LET len == FromBeBytes(rbuf)
            IN  IF TooLarge(len)
                THEN /\ rres' = Result("length")
                     /\ rpc' = "done"
                     /\ rlen' = len
                ELSE /\ rres' = rres
                     /\ rpc' = "read_rest"
                     /\ rlen' = len
    /\ UNCHANGED <<rpos, rbuf, rmac, rpayload, ralloc, reads, rcalls, tampered,
                   inputs, wlocals, others>>

\* buf.resize(4 + len, 0); reader.read_exact(&mut buf[cipher.block_size()..])
RReadRest ==
    /\ rpc = "read_rest"
    /\ ralloc' = Max(ralloc, 4 + rlen)
    /\ IF 4 + rlen < cipher.block_size
       THEN \* the slice starts past the end of the resized buffer
            /\ rres' = Result("panic")
            /\ rpc' = "done"
            /\ UNCHANGED <<rbuf, rpos, reads>>
       ELSE LET n == 4 + rlen - cipher.block_size
            IN  /\ reads' = Append(reads, n)
                /\ IF CanRead(n)
                   THEN /\ rbuf' = rbuf \o Slice(wire, rpos, rpos + n)
                        /\ rpos' = rpos + n
                        /\ rpc' = "read_mac"
                        /\ rres' = rres
                   ELSE /\ rres' = Result("io")
                        /\ rpc' = "done"
                        /\ rpos' = Len(wire)
                        /\ rbuf' = rbuf
    /\ UNCHANGED <<rmac, rlen, rpayload, rcalls, tampered, inputs, wlocals, others>>

\* mutant: the MAC is copied from the source without being consumed
RReadMacPeek ==
    /\ rpc = "read_mac"
    /\ reads' = Append(reads, cipher.mac_size)
    /\ IF CanRead(cipher.mac_size)
       THEN /\ rmac' = Slice(wire, rpos, rpos + cipher.mac_size)
            /\ rpc' = "verify1"
            /\ rres' = rres
       ELSE /\ rres' = Result("io")
            /\ rpc' = "done"
            /\ rmac' = rmac
    /\ UNCHANGED <<rpos, rbuf, rlen, rpayload, ralloc, rcalls, tampered, inputs,
                   wlocals, others>>

\* let mut mac = vec![0; cipher.mac().size()]; reader.read_exact(&mut mac[..])
RReadMac ==
    /\ rpc = "read_mac"
    /\ reads' = Append(reads, cipher.mac_size)
    /\ IF CanRead(cipher.mac_size)
       THEN /\ rmac' = Slice(wire, rpos, rpos + cipher.mac_size)
            /\ rpos' = rpos + cipher.mac_size
            /\ rpc' = "verify1"
            /\ rres' = rres
       ELSE /\ rres' = Result("io")
            /\ rpc' = "done"
            /\ rpos' = Len(wire)
            /\ rmac' = rmac
    /\ UNCHANGED <<rbuf, rlen, rpayload, ralloc, rcalls, tampered, inputs, wlocals, others>>

\* mutant: decrypt comes first whatever the MAC mode
ReadOrderDecryptFirst(etm) == <<"decrypt", "open">>

\* mutant: the MAC is verified first whatever the MAC mode
ReadOrderOpenFirst(etm) == <<"open", "decrypt">>

\* the order of the two cipher calls of `if cipher.mac().etm() {..} else {..}`
ReadOrder(etm) == IF etm THEN <<"open", "decrypt">> ELSE <<"decrypt", "open">>

ReadPc(etm, op) == IF ReadOrder(etm)[1] = op THEN "verify1" ELSE "verify2"

AfterVerify(pc) == IF pc = "verify1" THEN "verify2" ELSE "split"

\* mutant: the result of open is dropped (no `?`)
ROpenUnchecked ==
    /\ rpc = ReadPc(cipher.etm, "open")
    /\ rcalls' = Append(rcalls, Call("open", 0, Len(rbuf), rseq))
    /\ rpc' = AfterVerify(rpc)
    /\ UNCHANGED <<rpos, rbuf, rmac, rlen, rpayload, ralloc, reads, rres, tampered,
                   inputs, wlocals, others>>

\* mutant: open is given the sequence number after the caller's
ROpenNextSeq ==
    /\ rpc = ReadPc(cipher.etm, "open")
    /\ rcalls' = Append(rcalls, Call("open", 0, Len(rbuf), rseq + 1))
    /\ IF Open(cipher, rbuf, rmac, rseq + 1)
       THEN /\ rpc' = AfterVerify(rpc)
            /\ rres' = rres
       ELSE /\ rres' = Result("mac")
            /\ rpc' = "done"
    /\ UNCHANGED <<rpos, rbuf, rmac, rlen, rpayload, ralloc, reads, tampered,
                   inputs, wlocals, others>>

\* cipher.open(&buf, mac, seq)?;
ROpen ==
    /\ rpc = ReadPc(cipher.etm, "open")
    /\ rcalls' = Append(rcalls, Call("open", 0, Len(rbuf), rseq))
    /\ IF Open(cipher, rbuf, rmac, rseq)
       THEN /\ rpc' = AfterVerify(rpc)
            /\ rres' = rres
       ELSE /\ rres' = Result("mac")
            /\ rpc' = "done"
    /\ UNCHANGED <<rpos, rbuf, rmac, rlen, rpayload, ralloc, reads, tampered,
                   inputs, wlocals, others>>

\* cipher.decrypt(&mut buf[4..]) if ETM, &mut buf[cipher.block_size()..] if not
RDecryptRest ==
    /\ rpc = ReadPc(cipher.etm, "decrypt")
    /\ LET lo == IF cipher.etm THEN 4 ELSE cipher.block_size
       IN  /\ rbuf' = Slice(rbuf, 0, lo) \o Decrypt(cipher, Slice(rbuf, lo, Len(rbuf)))
           /\ rcalls' = Append(rcalls, Call("decrypt", lo, Len(rbuf), -1))
    /\ rpc' = AfterVerify(rpc)
    /\ UNCHANGED <<rpos, rmac, rlen, rpayload, ralloc, reads, rres, tampered,
                   inputs, wlocals, others>>

\* mutant: the payload is taken from the padding_length byte on
PayloadOfFromPadLen(buf, len, padlen) == Slice(buf, 4, 4 + (len - padlen - 1))

\* vec![0; len - padlen - 1] filled from the bytes after the padding_length
PayloadOf(buf, len, padlen) == Slice(buf, 5, 5 + (len - padlen - 1))

\* mutant: a padding_length equal to packet_length is let through
PadTooLargeOffByOne(padlen, len) == padlen > len

\* if *padlen as usize > len as usize - 1
PadTooLarge(padlen, len) == padlen > len - 1

\* buf[4..].split_first(), the padding_length check and the payload copy
RSplit ==
    /\ rpc = "split"
    /\ IF Len(rbuf) <= 4
       THEN /\ rres' = Result("length")
            /\ rpc' = "done"
            /\ rpayload' = rpayload
       ELSE LET padlen == rbuf[5]
            IN  IF PadTooLarge(padlen, rlen)
                THEN /\ rres' = Result("length")
                     /\ rpc' = "done"
                     /\ rpayload' = rpayload
                ELSE /\ rpayload' = PayloadOf(rbuf, rlen, padlen)
                     /\ rpc' = "decompress"
                     /\ rres' = rres
    /\ UNCHANGED <<rpos, rbuf, rmac, rlen, ralloc, reads, rcalls, tampered,
                   inputs, wlocals, others>>

\* let payload = cipher.decompress(payload)?; Ok(Self { payload })
RDecompress ==
    /\ rpc = "decompress"
    /\ rcalls' = Append(rcalls, Call("decompress", 0, Len(rpayload), -1))
    /\ rres' = IF DecompressOk(cipher, rpayload)
               THEN [kind |-> "ok", payload |-> Decompress(cipher, rpayload)]
               ELSE Result("cipher")
    /\ rpc' = "done"
    /\ UNCHANGED <<rpos, rbuf, rmac, rlen, rpayload, ralloc, reads, tampered,
                   inputs, wlocals, others>>

----------------------------------------------------------------------------
(* Packet::from_reader and the OpeningCipher defaults of src/packet.rs, the   *)
(* reader of the field-by-field framing, run on the same source from its     *)
(* start once from_async_reader has returned                                 *)

\* OpeningCipher::decrypt_len: the length is decrypted only without a MAC
DecryptLen(c, b) == FromBeBytes(IF c.mac_size = 0 THEN Decrypt(c, b) ELSE b)

\* OpeningCipher::decrypt_padlen
DecryptPadLen(c, b) == Decrypt(c, b)[1]

LCanRead(n) == Len(wire) - leg.pos >= n

LFail(kind, n) == [leg EXCEPT !.pc = "done", !.res = kind, !.reads = Append(@, n)]

\* reader.read_exact(&mut buf[..])?; let len = cipher.decrypt_len(buf)?; and
\* the PACKET_MAX_SIZE check
LReadLen ==
    /\ wpc = "done"
    /\ rpc = "done"
    /\ leg.pc = "read_len"
    /\ IF ~LCanRead(4)
       THEN leg' = LFail("io", 4)
       ELSE LET len == DecryptLen(cipher, Slice(wire, leg.pos, leg.pos + 4))
                got == [leg EXCEPT !.reads = Append(@, 4), !.pos = @ + 4,
                                   !.len = len,
                                   !.calls = Append(@, "decrypt_len")]
            IN  IF TooLarge(len)
                THEN leg' = [got EXCEPT !.pc = "done", !.res = "length"]
                ELSE leg' = [got EXCEPT !.pc = "read_padlen"]
    /\ UNCHANGED <<pvars, aleg, padv, arch, nl, idv, strm>>

\* reader.read_exact(&mut buf[..])?; let padlen = cipher.decrypt_padlen(buf)?;
\* and the check against len - 1, which underflows when len is 0
LReadPadLen ==
    /\ leg.pc = "read_padlen"
    /\ IF ~LCanRead(1)
       THEN leg' = LFail("io", 1)
       ELSE LET padlen == DecryptPadLen(cipher, Slice(wire, leg.pos, leg.pos + 1))
                got == [leg EXCEPT !.reads = Append(@, 1), !.pos = @ + 1,
                                   !.padlen = padlen,
                                   !.calls = Append(@, "decrypt_padlen")]
            IN  IF leg.len = 0
                THEN leg' = [got EXCEPT !.pc = "done", !.res = "panic"]
                ELSE IF PadTooLarge(padlen, leg.len)
                THEN leg' = [got EXCEPT !.pc = "done", !.res = "length"]
                ELSE leg' = [got EXCEPT !.pc = "read_payload"]
    /\ UNCHANGED <<pvars, aleg, padv, arch, nl, idv, strm>>

\* let mut payload = vec![0; len - padlen - 1]; reader.read_exact(..)?;
LReadPayload ==
    /\ leg.pc = "read_payload"
    /\ LET n == leg.len - leg.padlen - 1
       IN  IF ~LCanRead(n)
           THEN leg' = LFail("io", n)
           ELSE leg' = [leg EXCEPT !.reads = Append(@, n), !.pos = @ + n,
                                   !.payload = Slice(wire, leg.pos, leg.pos + n),
                                   !.pc = "read_padding"]
    /\ UNCHANGED <<pvars, aleg, padv, arch, nl, idv, strm>>

\* let mut padding = vec![0; padlen]; reader.read_exact(..)?;
LReadPadding ==
    /\ leg.pc = "read_padding"
    /\ LET n == leg.padlen
       IN  IF ~LCanRead(n)
           THEN leg' = LFail("io", n)
           ELSE leg' = [leg EXCEPT !.reads = Append(@, n), !.pos = @ + n,
                                   !.padding = Slice(wire, leg.pos, leg.pos + n),
                                   !.pc = "read_mac"]
    /\ UNCHANGED <<pvars, aleg, padv, arch, nl, idv, strm>>

\* let mut mac = vec![0; maclen]; reader.read_exact(..)?; Ok(Self {..})
LReadMac ==
    /\ leg.pc = "read_mac"
    /\ LET n == cipher.mac_size
       IN  IF ~LCanRead(n)
           THEN leg' = LFail("io", n)
           ELSE leg' = [leg EXCEPT !.reads = Append(@, n), !.pos = @ + n,
                                   !.mac = Slice(wire, leg.pos, leg.pos + n),
                                   !.pc = "done", !.res = "ok"]
    /\ UNCHANGED <<pvars, aleg, padv, arch, nl, idv, strm>>

----------------------------------------------------------------------------
(* Packet::from_async_reader of src/packet.rs, run on the same source from    *)
(* its start once from_reader has returned; `awaits` records the points      *)
(* where the future is suspended                                             *)

ACanRead(n) == Len(wire) - aleg.pos >= n

\* reader.read_exact(..).await on n bytes
Awaited(l, n) == [l EXCEPT !.reads = Append(@, n), !.awaits = Append(@, n)]

AFail(kind, n) == [Awaited(aleg, n) EXCEPT !.pc = "done", !.res = kind]

\* reader.read_exact(&mut buf[..]).await?; let len = cipher.decrypt_len(buf)?;
\* and the PACKET_MAX_SIZE check
AReadLen ==
    /\ leg.pc = "done"
    /\ aleg.pc = "read_len"
    /\ IF ~ACanRead(4)
       THEN aleg' = AFail("io", 4)
       ELSE LET len == DecryptLen(cipher, Slice(wire, aleg.pos, aleg.pos + 4))
                got == [Awaited(aleg, 4) EXCEPT !.pos = @ + 4, !.len = len,
                                                !.calls = Append(@, "decrypt_len")]
            IN  IF len > PACKET_MAX_SIZE
                THEN aleg' = [got EXCEPT !.pc = "done", !.res = "length"]
                ELSE aleg' = [got EXCEPT !.pc = "read_padlen"]
    /\ UNCHANGED <<pvars, leg, padv, arch, nl, idv, strm>>

\* mutant: the asynchronous reader lets padding_length = packet_length through
APadTooLargeOffByOne(padlen, len) == padlen > len

\* if padlen as usize > len as usize - 1, in from_async_reader
APadTooLarge(padlen, len) == padlen > len - 1

\* reader.read_exact(&mut buf[..]).await?; let padlen =
\* cipher.decrypt_padlen(buf)?; and the check against len - 1, which
\* underflows when len is 0
AReadPadLen ==
    /\ aleg.pc = "read_padlen"
    /\ IF ~ACanRead(1)
       THEN aleg' = AFail("io", 1)
       ELSE LET padlen == DecryptPadLen(cipher, Slice(wire, aleg.pos, aleg.pos + 1))
                got == [Awaited(aleg, 1) EXCEPT !.pos = @ + 1, !.padlen = padlen,
                                                !.calls = Append(@, "decrypt_padlen")]
            IN  IF aleg.len = 0
                THEN aleg' = [got EXCEPT !.pc = "done", !.res = "panic"]
                ELSE IF APadTooLarge(padlen, aleg.len)
                THEN aleg' = [got EXCEPT !.pc = "done", !.res = "length"]
                ELSE aleg' = [got EXCEPT !.pc = "read_payload"]
    /\ UNCHANGED <<pvars, leg, padv, arch, nl, idv, strm>>

\* let mut payload = vec![0; len - padlen - 1]; reader.read_exact(..).await?;
AReadPayload ==
    /\ aleg.pc = "read_payload"
    /\ LET n == aleg.len - aleg.padlen - 1
       IN  IF ~ACanRead(n)
           THEN aleg' = AFail("io", n)
           ELSE aleg' = [Awaited(aleg, n) EXCEPT
                            !.pos = @ + n,
                            !.payload = Slice(wire, aleg.pos, aleg.pos + n),
                            !.pc = "read_padding"]
    /\ UNCHANGED <<pvars, leg, padv, arch, nl, idv, strm>>

\* let mut padding = vec![0; padlen]; reader.read_exact(..).await?;
AReadPadding ==
    /\ aleg.pc = "read_padding"
    /\ LET n == aleg.padlen
       IN  IF ~ACanRead(n)
           THEN aleg' = AFail("io", n)
           ELSE aleg' = [Awaited(aleg, n) EXCEPT
                            !.pos = @ + n,
                            !.padding = Slice(wire, aleg.pos, aleg.pos + n),
                            !.pc = "read_mac"]
    /\ UNCHANGED <<pvars, leg, padv, arch, nl, idv, strm>>

\* let mut mac = vec![0; maclen]; reader.read_exact(..).await?; Ok(Self {..})
AReadMac ==
    /\ aleg.pc = "read_mac"
    /\ LET n == cipher.mac_size
       IN  IF ~ACanRead(n)
           THEN aleg' = AFail("io", n)
           ELSE aleg' = [Awaited(aleg, n) EXCEPT
                            !.pos = @ + n,
                            !.mac = Slice(wire, aleg.pos, aleg.pos + n),
                            !.pc = "done", !.res = "ok"]
    /\ UNCHANGED <<pvars, leg, padv, arch, nl, idv, strm>>

----------------------------------------------------------------------------
(* The transport between the writer and the reader *)

FlipBit(b, k) == IF (b \div (2 ^ k)) % 2 = 1 THEN b - 2 ^ k ELSE b + 2 ^ k

\* one bit of one byte of the written frame is flipped in transit
Tamper ==
    /\ wpc = "done"
    /\ rpc = "read_block"
    /\ tampered = 0
    /\ \E i \in 1..Len(wire), k \in 0..7 :
        /\ wire' = [wire EXCEPT ![i] = FlipBit(@, k)]
        /\ tampered' = i
    /\ UNCHANGED <<wpc, wbuf, wpad, wmac, wcalls, written, inputs, rlocals, others>>

----------------------------------------------------------------------------

Write == WCompress \/ WPadding \/ WPad \/ WForge \/ WEncrypt \/ WSeal
            \/ WWriteFrame \/ WWriteMac

Read == RReadBlock \/ RDecryptBlock \/ RParseLen \/ RReadRest \/ RReadMac
            \/ ROpen \/ RDecryptRest \/ RSplit \/ RDecompress

FromReader == LReadLen \/ LReadPadLen \/ LReadPayload \/ LReadPadding \/ LReadMac

FromAsyncReader == AReadLen \/ AReadPadLen \/ AReadPayload \/ AReadPadding
                      \/ AReadMac

Next == Write \/ Read \/ FromReader \/ FromAsyncReader

Spec == Init /\ [][Next]_vars

\* frames of a conforming writer under a cipher with a MAC, read back with the
\* writer's sequence number, over a transport that may flip one bit
InitTamper ==
    /\ leg = LegIdle
    /\ aleg = LegIdle
    /\ cipher \in {c \in Ciphers : c.mac_size > 0}
    /\ payload \in Payloads
    /\ wseq \in SeqNumbers
    /\ rseq = wseq
    /\ fill = 0
    /\ forged = <<>>
    /\ InitCommon

NextTamper == WCompress \/ WPadding \/ WPad \/ WEncrypt \/ WSeal \/ WWriteFrame
                \/ WWriteMac \/ Tamper \/ Read

SpecTamper == InitTamper /\ [][NextTamper]_vars

----------------------------------------------------------------------------
(* Several packets on one stream: to_async_writer called once per packet on  *)
(* the same writer, then from_async_reader called once per packet on the     *)
(* same reader, each side counting its sequence number up from the same start *)

StreamBytes == {0, 255}

StreamPayloads == BufsUpTo(StreamBytes, MaxStreamPayloadLen)

InitStream ==
    /\ leg = LegIdle
    /\ aleg = LegIdle
    /\ cipher \in Ciphers
    /\ payload \in StreamPayloads
    /\ wseq \in SeqNumbers
    /\ rseq = wseq
    /\ fill = 0
    /\ forged = <<>>
    /\ InitCommon

\* the next call of to_async_writer, on the same writer, before any read
WNextPacket ==
    /\ wpc = "done"
    /\ rpc = "read_block"
    /\ reads = <<>>
    /\ strm.got = <<>>
    /\ Len(strm.sent) + 1 < MaxFrames
    /\ strm' = [strm EXCEPT !.sent = Append(@, payload)]
    /\ payload' \in StreamPayloads
    /\ wseq' = wseq + 1
    /\ wpc' = "compress"
    /\ wbuf' = <<>>
    /\ wpad' = 0
    /\ wmac' = <<>>
    /\ wcalls' = <<>>
    /\ written' = <<>>
    /\ UNCHANGED <<wire, cipher, fill, forged, rseq, tampered, rlocals,
                   leg, aleg, padv, arch, nl, idv>>

\* the next call of from_async_reader, on the same reader, after an Ok(Packet)
RNextPacket ==
    /\ rpc = "done"
    /\ rres.kind = "ok"
    /\ Len(strm.got) < Len(strm.sent)
    /\ strm' = [strm EXCEPT !.got = Append(@, rres.payload), !.start = rpos]
    /\ rseq' = rseq + 1
    /\ rpc' = "read_block"
    /\ rbuf' = <<>>
    /\ rmac' = <<>>
    /\ rlen' = 0
    /\ rpayload' = <<>>
    /\ ralloc' = 0
    /\ reads' = <<>>
    /\ rcalls' = <<>>
    /\ rres' = NoResult
    /\ UNCHANGED <<rpos, cipher, payload, wseq, fill, forged, tampered, wlocals,
                   leg, aleg, padv, arch, nl, idv>>

NextStream == WCompress \/ WPadding \/ WPad \/ WEncrypt \/ WSeal \/ WWriteFrame
                \/ WWriteMac \/ WNextPacket \/ Read \/ RNextPacket

SpecStream == InitStream /\ [][NextStream]_vars

----------------------------------------------------------------------------
(* CipherCore::padding on its own, over every block size and payload length *)

\* no packet is being written or read
PacketIdle ==
    /\ cipher = [block_size |-> 8, etm |-> FALSE, mac_size |-> 0, key |-> 0,
                 comp |-> FALSE]
    /\ payload = <<>>
    /\ wseq = 0
    /\ rseq = 0
    /\ fill = 0
    /\ forged = <<>>
    /\ wpc = "idle"
    /\ wbuf = <<>>
    /\ wpad = 0
    /\ wmac = <<>>
    /\ wcalls = <<>>
    /\ wire = <<>>
    /\ written = <<>>
    /\ tampered = 0
    /\ rpc = "idle"
    /\ rpos = 0
    /\ rbuf = <<>>
    /\ rmac = <<>>
    /\ rlen = 0
    /\ rpayload = <<>>
    /\ ralloc = 0
    /\ reads = <<>>
    /\ rcalls = <<>>
    /\ rres = NoResult
    /\ leg = LegIdle
    /\ aleg = LegIdle
    /\ strm = StrmIdle

InitPad ==
    /\ PacketIdle
    /\ idv = IdIdle
    /\ arch = ArchIdle
    /\ nl = NlIdle
    /\ padv \in [block_size : 0..MaxBlockSize, etm : BOOLEAN, len : 0..MaxPaddedLen,
                 usize : {-1}, out : {-1}, packet_length : {-1}]

\* fn padding(&self, payload: usize) -> u8
PaddingCall ==
    /\ padv.out = -1
    /\ padv' = [padv EXCEPT
                   !.usize = PaddingUsize(padv.block_size, padv.etm, padv.len),
                   !.out = Padding(padv.block_size, padv.etm, padv.len)]
    /\ UNCHANGED <<pvars, leg, aleg, arch, nl, idv, strm>>

NextPad == PaddingCall

SpecPad == InitPad /\ [][NextPad]_vars

----------------------------------------------------------------------------
(* The lengths to_async_writer puts in a frame, for compressed payloads up   *)
(* to and beyond the largest that fit in PACKET_MAX_SIZE                     *)

WriterLens == (0..MaxWriterLen) \cup {PACKET_MAX_SIZE - k : k \in 0..MaxWriterLen}

InitLen ==
    /\ PacketIdle
    /\ idv = IdIdle
    /\ arch = ArchIdle
    /\ nl = NlIdle
    /\ padv \in [block_size : BlockSizes, etm : BOOLEAN, len : WriterLens,
                 usize : {-1}, out : {-1}, packet_length : {-1}]

\* (buf.len() as u32) of the buffer `pad` returns: the padding_length byte, the
\* compressed payload and `padding` bytes
PacketLength(len, padding) == 1 + len + padding

\* let padding = cipher.padding(compressed.len()); let buf = cipher.pad(..)?;
\* and the length prefix; no step of the writer looks at the size
WriterLengths ==
    /\ padv.packet_length = -1
    /\ LET padding == Padding(padv.block_size, padv.etm, padv.len)
       IN  padv' = [padv EXCEPT
                       !.usize = PaddingUsize(padv.block_size, padv.etm, padv.len),
                       !.out = padding,
                       !.packet_length = PacketLength(padv.len, padding)]
    /\ UNCHANGED <<pvars, leg, aleg, arch, nl, idv, strm>>

NextLen == WriterLengths

SpecLen == InitLen /\ [][NextLen]_vars

----------------------------------------------------------------------------
(* Bytes and MpInt: src/arch/bytes.rs, src/arch/mpint.rs *)

\* BinWrite of Bytes / Bytes2: the u32 size, then the buffer
BytesWrite(b) == ToBeBytes(Len(b)) \o b

\* mutant: the declared size also counts the four size bytes
BytesReadSizeInclusive(stream) ==
    IF Len(stream) < 4 THEN [ok |-> FALSE, value |-> <<>>, n |-> 0]
    ELSE LET size == FromBeBytes(stream) - 4
         IN  IF size < 0 \/ Len(stream) - 4 < size
             THEN [ok |-> FALSE, value |-> <<>>, n |-> 4]
             ELSE [ok |-> TRUE, value |-> Slice(stream, 4, 4 + size), n |-> 4 + size]

\* BinRead of Bytes / Bytes2: the u32 size, then exactly `size` bytes
BytesRead(stream) ==
    IF Len(stream) < 4 THEN [ok |-> FALSE, value |-> <<>>, n |-> 0]
    ELSE LET size == FromBeBytes(stream)
         IN  IF Len(stream) - 4 < size
             THEN [ok |-> FALSE, value |-> <<>>, n |-> 4]
             ELSE [ok |-> TRUE, value |-> Slice(stream, 4, 4 + size), n |-> 4 + size]

\* mutant: only a first byte above 0x80 gets the zero byte
MpIntNewAbove(v) == IF v # <<>> /\ v[1] > 128 THEN <<0>> \o v ELSE v

\* MpInt::new: a zero byte is pushed in front of a first byte >= 0x80
MpIntNew(v) == IF v # <<>> /\ v[1] >= 128 THEN <<0>> \o v ELSE v

\* BinWrite of MpInt2: a zero byte if the first byte >= 0x80, then the buffer
\* as a slice, with no size in front
MpInt2Write(b) == (IF b # <<>> /\ b[1] >= 128 THEN <<0>> ELSE <<>>) \o b

ArchBufs == BufsUpTo(ArchBytes, MaxBufLen)

InitArch ==
    /\ PacketIdle
    /\ idv = IdIdle
    /\ padv = PadIdle
    /\ nl = NlIdle
    /\ \E b \in ArchBufs, d \in 0..(MaxBufLen + 1) :
          arch = [ArchIdle EXCEPT !.op = "input", !.in = b, !.declared = d]

\* Bytes::new(in) written
BytesWriteOp ==
    /\ arch.op = "input"
    /\ arch' = [arch EXCEPT !.op = "bytes_written", !.enc = BytesWrite(arch.in)]
    /\ UNCHANGED <<pvars, leg, aleg, padv, nl, idv, strm>>

\* the written Bytes read back
BytesReadOp ==
    /\ arch.op = "bytes_written"
    /\ LET r == BytesRead(arch.enc)
       IN  arch' = [arch EXCEPT !.op = "bytes_read", !.ok = r.ok, !.dec = r.value,
                                !.n = r.n]
    /\ UNCHANGED <<pvars, leg, aleg, padv, nl, idv, strm>>

\* Bytes read from a stream that declares `declared` bytes and holds `in`
BytesReadRaw ==
    /\ arch.op = "input"
    /\ LET stream == ToBeBytes(arch.declared) \o arch.in
           r == BytesRead(stream)
       IN  arch' = [arch EXCEPT !.op = "raw_read", !.enc = stream, !.ok = r.ok,
                                !.dec = r.value, !.n = r.n]
    /\ UNCHANGED <<pvars, leg, aleg, padv, nl, idv, strm>>

\* MpInt::new(in) written
MpIntNewOp ==
    /\ arch.op = "input"
    /\ LET m == MpIntNew(arch.in)
       IN  arch' = [arch EXCEPT !.op = "mpint", !.content = m, !.enc = BytesWrite(m)]
    /\ UNCHANGED <<pvars, leg, aleg, padv, nl, idv, strm>>

\* MpInt::new over the content of the MpInt, written
MpIntRenewOp ==
    /\ arch.op = "mpint"
    /\ arch' = [arch EXCEPT !.op = "mpint_again",
                            !.enc2 = BytesWrite(MpIntNew(arch.content))]
    /\ UNCHANGED <<pvars, leg, aleg, padv, nl, idv, strm>>

\* MpInt2(Bytes2::owned(in)) written
MpInt2WriteOp ==
    /\ arch.op = "input"
    /\ LET w == MpInt2Write(arch.in)
       IN  arch' = [arch EXCEPT !.op = "mpint2", !.content = w, !.enc = w]
    /\ UNCHANGED <<pvars, leg, aleg, padv, nl, idv, strm>>

\* MpInt2 over the bytes MpInt2 wrote, written
MpInt2RewriteOp ==
    /\ arch.op = "mpint2"
    /\ arch' = [arch EXCEPT !.op = "mpint2_again", !.enc2 = MpInt2Write(arch.content)]
    /\ UNCHANGED <<pvars, leg, aleg, padv, nl, idv, strm>>

\* the written MpInt read back: MpInt is read as the Bytes it wraps
MpIntReadOp ==
    /\ arch.op = "mpint"
    /\ LET r == BytesRead(arch.enc)
       IN  arch' = [arch EXCEPT !.op = "mpint_read", !.ok = r.ok, !.dec = r.value,
                                !.n = r.n]
    /\ UNCHANGED <<pvars, leg, aleg, padv, nl, idv, strm>>

\* the bytes MpInt2 wrote read back by MpInt2::read_options, a Bytes2 read
MpInt2ReadOp ==
    /\ arch.op = "mpint2"
    /\ LET r == BytesRead(arch.enc)
       IN  arch' = [arch EXCEPT !.op = "mpint2_read", !.ok = r.ok, !.dec = r.value,
                                !.n = r.n]
    /\ UNCHANGED <<pvars, leg, aleg, padv, nl, idv, strm>>

NextArch == BytesWriteOp \/ BytesReadOp \/ BytesReadRaw \/ MpIntNewOp
                \/ MpIntRenewOp \/ MpInt2WriteOp \/ MpInt2RewriteOp
                \/ MpIntReadOp \/ MpInt2ReadOp

SpecArch == InitArch /\ [][NextArch]_vars

----------------------------------------------------------------------------
(* Utf8, Ascii and StringAscii: src/arch/utf8.rs, src/arch/ascii.rs,         *)
(* src/message/arch/string.rs                                                *)

\* a continuation byte within lo..hi
Cont(b, i, lo, hi) == i <= Len(b) /\ b[i] >= lo /\ b[i] <= hi

RECURSIVE Utf8ValidFrom(_, _)
\* std::str::from_utf8(..).is_ok(): the width is read off the first byte, the
\* second byte is checked against the range its first byte allows, the others
\* against 0x80..0xBF
Utf8ValidFrom(b, i) ==
    IF i > Len(b) THEN TRUE
    ELSE LET first == b[i]
         IN  IF first < 128 THEN Utf8ValidFrom(b, i + 1)
             ELSE IF first >= 194 /\ first <= 223
             THEN Cont(b, i + 1, 128, 191) /\ Utf8ValidFrom(b, i + 2)
             ELSE IF first >= 224 /\ first <= 239
             THEN /\ \/ first = 224 /\ Cont(b, i + 1, 160, 191)
                     \/ first >= 225 /\ first <= 236 /\ Cont(b, i + 1, 128, 191)
                     \/ first = 237 /\ Cont(b, i + 1, 128, 159)
                     \/ first >= 238 /\ Cont(b, i + 1, 128, 191)
                  /\ Cont(b, i + 2, 128, 191)
                  /\ Utf8ValidFrom(b, i + 3)
             ELSE IF first >= 240 /\ first <= 244
             THEN /\ \/ first = 240 /\ Cont(b, i + 1, 144, 191)
                     \/ first >= 241 /\ first <= 243 /\ Cont(b, i + 1, 128, 191)
                     \/ first = 244 /\ Cont(b, i + 1, 128, 143)
                  /\ Cont(b, i + 2, 128, 191)
                  /\ Cont(b, i + 3, 128, 191)
                  /\ Utf8ValidFrom(b, i + 4)
             ELSE FALSE

Utf8Valid(b) == Utf8ValidFrom(b, 1)

\* mutant: the byte 0x80 passes for ASCII
IsAsciiUpTo128(b) == \A i \in 1..Len(b) : b[i] <= 128

\* <[u8]>::is_ascii / str::is_ascii
IsAscii(b) == \A i \in 1..Len(b) : b[i] < 128

Rejected(n) == [ok |-> FALSE, value |-> <<>>, n |-> n]

\* BinRead of Utf8 / StringUtf8: a Bytes, then assert(from_utf8(..).is_ok())
Utf8Read(stream) ==
    LET r == BytesRead(stream)
    IN  IF r.ok /\ ~Utf8Valid(r.value) THEN Rejected(r.n) ELSE r

\* BinRead of Ascii: a Bytes, then assert(is_ascii())
AsciiRead(stream) ==
    LET r == BytesRead(stream)
    IN  IF r.ok /\ ~IsAscii(r.value) THEN Rejected(r.n) ELSE r

\* BinRead of StringAscii: a StringUtf8, then assert(is_ascii())
StringAsciiRead(stream) ==
    LET r == Utf8Read(stream)
    IN  IF r.ok /\ ~IsAscii(r.value) THEN Rejected(r.n) ELSE r

\* byte groups the contents are made of: well-formed characters of one to four
\* bytes, a lone continuation byte, a lone lead byte, overlong forms, a
\* surrogate, a value above U+10FFFF and a byte that is never valid
Units == {<<65>>, <<127>>, <<195, 169>>, <<224, 160, 128>>, <<240, 144, 128, 128>>,
          <<128>>, <<195>>, <<192, 128>>, <<224, 128, 128>>, <<237, 160, 128>>,
          <<244, 144, 128, 128>>, <<255>>}

RECURSIVE Flatten(_)
Flatten(q) == IF q = <<>> THEN <<>> ELSE q[1] \o Flatten(Tail(q))

Contents == {Flatten(q) : q \in BufsUpTo(Units, MaxUnits)}

\* a stream that declares all of its content, or one byte more than it holds
InitString ==
    /\ PacketIdle
    /\ idv = IdIdle
    /\ padv = PadIdle
    /\ nl = NlIdle
    /\ \E b \in Contents, extra \in {0, 1} :
          arch = [ArchIdle EXCEPT !.op = "input", !.in = b,
                                  !.declared = Len(b) + extra,
                                  !.enc = ToBeBytes(Len(b) + extra) \o b]

Decoded(op, r) ==
    [arch EXCEPT !.op = op, !.ok = r.ok, !.dec = r.value, !.n = r.n]

\* the stream read as an Ascii
AsciiReadOp ==
    /\ arch.op = "input"
    /\ arch' = Decoded("ascii_read", AsciiRead(arch.enc))
    /\ UNCHANGED <<pvars, leg, aleg, padv, nl, idv, strm>>

\* the stream read as a Utf8
Utf8ReadOp ==
    /\ arch.op = "input"
    /\ arch' = Decoded("utf8_read", Utf8Read(arch.enc))
    /\ UNCHANGED <<pvars, leg, aleg, padv, nl, idv, strm>>

\* the stream read as a StringAscii
StringAsciiReadOp ==
    /\ arch.op = "input"
    /\ arch' = Decoded("string_ascii_read", StringAsciiRead(arch.enc))
    /\ UNCHANGED <<pvars, leg, aleg, padv, nl, idv, strm>>

\* Deref of the decoded value: from_utf8(&self.0).expect(..)
DerefOp ==
    /\ arch.op \in {"ascii_read", "utf8_read", "string_ascii_read"}
    /\ arch.ok
    /\ arch' = [arch EXCEPT !.op = "deref", !.content = arch.dec,
                            !.panicked = ~Utf8Valid(arch.dec)]
    /\ UNCHANGED <<pvars, leg, aleg, padv, nl, idv, strm>>

NextString == AsciiReadOp \/ Utf8ReadOp \/ StringAsciiReadOp \/ DerefOp

SpecString == InitString /\ [][NextString]_vars

----------------------------------------------------------------------------
(* NameList: src/arch/namelist.rs *)

RECURSIVE Split(_, _, _)
\* str::split(','): the tokens of t from index i on, `cur` being the open one
Split(t, i, cur) ==
    IF i > Len(t) THEN <<cur>>
    ELSE IF t[i] = "," THEN <<cur>> \o Split(t, i + 1, <<>>)
    ELSE Split(t, i + 1, Append(cur, t[i]))

NonEmpty(name) == name # <<>>

\* mutant: the empty tokens are kept
IterKeepsEmpty(t) == Split(t, 1, <<>>)

\* IntoIterator for &NameList: split(',').filter(|s| !s.is_empty())
Iter(t) == SelectSeq(Split(t, 1, <<>>), NonEmpty)

\* other.into_iter().any(|n| name == n)
AnyName(names, name) == \E j \in 1..Len(names) : names[j] = name

RECURSIVE Find(_, _)
\* self.into_iter().find(|&name| other.into_iter().any(|n| name == n))
Find(names, other) ==
    IF names = <<>> THEN [some |-> FALSE, name |-> <<>>]
    ELSE IF AnyName(other, names[1]) THEN [some |-> TRUE, name |-> names[1]]
    ELSE Find(Tail(names), other)

\* mutant: the search runs in the order of `other`
PreferredInOtherOrder(a, b) == Find(Iter(b), Iter(a))

\* NameList::preferred_in
PreferredIn(a, b) == Find(Iter(a), Iter(b))

RECURSIVE Join(_)
\* Vec<String>::join(","): every element, a comma between two neighbours
Join(names) ==
    IF names = <<>> THEN <<>>
    ELSE IF Len(names) = 1 THEN names[1]
    ELSE names[1] \o <<",">> \o Join(Tail(names))

\* the byte of an ASCII character (String::into_bytes, str::as_bytes)
AsciiByte(ch) == CASE ch = "," -> 44 [] ch = "a" -> 97 [] ch = "b" -> 98

\* BinWrite of StringAscii / Ascii: the text as a Bytes, size first
AsciiWrite(t) == BytesWrite([i \in 1..Len(t) |-> AsciiByte(t[i])])

\* NameList::new: names.map(to_string).collect().join(",")
NameListNew(names) == Join(names)

\* FromIterator for NameList2: the empty names are filtered out before join
NameList2FromIter(names) == Join(SelectSeq(names, NonEmpty))

Texts == BufsUpTo(NameChars, MaxTextLen)

\* the names a NameList is built from: comma-free, the empty name included
Names == {<<>>, <<"a">>, <<"b">>, <<"a", "b">>}

NameSeqs == BufsUpTo(Names, MaxNames)

\* a NameList is either given by its text, as one read from the wire, or is
\* still to be built from a sequence of names
InitNameList ==
    /\ PacketIdle
    /\ idv = IdIdle
    /\ padv = PadIdle
    /\ arch = ArchIdle
    /\ \/ \E a \in Texts, b \in Texts :
             nl = [NlIdle EXCEPT !.a = a, !.b = b, !.built = "text"]
       \/ \E ns \in NameSeqs :
             nl = [NlIdle EXCEPT !.names = ns, !.built = "names"]

\* NameList::new(names), written
NameListNewOp ==
    /\ nl.built = "names"
    /\ LET t == NameListNew(nl.names)
       IN  nl' = [nl EXCEPT !.built = "new", !.a = t, !.enc = AsciiWrite(t)]
    /\ UNCHANGED <<pvars, leg, aleg, padv, arch, idv, strm>>

\* names.into_iter().collect::<NameList2>(), written
NameList2FromIterOp ==
    /\ nl.built = "names"
    /\ LET t == NameList2FromIter(nl.names)
       IN  nl' = [nl EXCEPT !.built = "from_iter", !.a = t, !.enc = AsciiWrite(t)]
    /\ UNCHANGED <<pvars, leg, aleg, padv, arch, idv, strm>>

\* (&list).into_iter().collect::<Vec<_>>()
IterCall ==
    /\ nl.built # "names"
    /\ ~nl.iterated
    /\ nl' = [nl EXCEPT !.iterated = TRUE, !.iter = Iter(nl.a)]
    /\ UNCHANGED <<pvars, leg, aleg, padv, arch, idv, strm>>

\* self.preferred_in(&other)
PreferredInCall ==
    /\ nl.built # "names"
    /\ ~nl.done
    /\ LET r == PreferredIn(nl.a, nl.b)
       IN  nl' = [nl EXCEPT !.done = TRUE, !.some = r.some, !.out = r.name]
    /\ UNCHANGED <<pvars, leg, aleg, padv, arch, idv, strm>>

NextNameList == NameListNewOp \/ NameList2FromIterOp \/ IterCall \/ PreferredInCall

SpecNameList == InitNameList /\ [][NextNameList]_vars

----------------------------------------------------------------------------
(* Id: src/id.rs. A text is a sequence of characters; "0xFF" stands for a    *)
(* byte that is not valid UTF-8                                              *)

SSH == <<"S", "S", "H">>

\* the position of the first occurrence of ch in s, 0 if there is none
FirstIndex(s, ch) ==
    IF \E i \in 1..Len(s) : s[i] = ch
    THEN CHOOSE i \in 1..Len(s) : s[i] = ch /\ \A j \in 1..(i - 1) : s[j] # ch
    ELSE 0

\* mutant: the literal prefix comes without its dash
DisplayNoDash(id) ==
    SSH \o id.protoversion \o <<"-">> \o id.softwareversion
        \o (IF id.comments.some THEN <<" ">> \o id.comments.text ELSE <<>>)

\* Display for Id: "SSH-{}-{}", then " {comments}" if there are comments
Display(id) ==
    SSH \o <<"-">> \o id.protoversion \o <<"-">> \o id.softwareversion
        \o (IF id.comments.some THEN <<" ">> \o id.comments.text ELSE <<>>)

RECURSIVE SplitN(_, _, _)
\* str::splitn(n, ch): at most n parts, the last one holding the rest
SplitN(s, n, ch) ==
    LET i == FirstIndex(s, ch)
    IN  IF n <= 1 \/ i = 0 THEN <<s>>
        ELSE <<SubSeq(s, 1, i - 1)>> \o SplitN(SubSeq(s, i + 1, Len(s)), n - 1, ch)

\* mutant: an empty softwareversion is accepted
FromStrLax(s) ==
    LET sp == FirstIndex(s, " ")
        id == IF sp = 0 THEN s ELSE SubSeq(s, 1, sp - 1)
        parts == SplitN(id, 3, "-")
    IN  IF Len(parts) = 3 /\ parts[1] = SSH /\ parts[2] # <<>>
        THEN [kind |-> "ok",
              id |-> [protoversion |-> parts[2], softwareversion |-> parts[3],
                      comments |-> IF sp = 0 THEN [some |-> FALSE, text |-> <<>>]
                                   ELSE [some |-> TRUE,
                                         text |-> SubSeq(s, sp + 1, Len(s))]]]
        ELSE [kind |-> "bad_identifier", id |-> NoId]

\* FromStr for Id: split_once(' '), splitn(3, '-') and the match on
\* ["SSH", protoversion, softwareversion], both non-empty
FromStr(s) ==
    LET sp == FirstIndex(s, " ")
        id == IF sp = 0 THEN s ELSE SubSeq(s, 1, sp - 1)
        parts == SplitN(id, 3, "-")
    IN  IF Len(parts) = 3 /\ parts[1] = SSH /\ parts[2] # <<>> /\ parts[3] # <<>>
        THEN [kind |-> "ok",
              id |-> [protoversion |-> parts[2], softwareversion |-> parts[3],
                      comments |-> IF sp = 0 THEN [some |-> FALSE, text |-> <<>>]
                                   ELSE [some |-> TRUE,
                                         text |-> SubSeq(s, sp + 1, Len(s))]]]
        ELSE [kind |-> "bad_identifier", id |-> NoId]

RECURSIVE Lines(_)
\* BufRead::lines / AsyncBufReadExt::lines: the stream cut after each "\n",
\* the "\n" and a "\r" before it removed; a line that is not valid UTF-8 is
\* an I/O error; no line after the last byte
Lines(stream) ==
    IF stream = <<>> THEN <<>>
    ELSE LET nl0 == FirstIndex(stream, "\n")
             raw == IF nl0 = 0 THEN stream ELSE SubSeq(stream, 1, nl0 - 1)
             line == IF nl0 # 0 /\ raw # <<>> /\ raw[Len(raw)] = "\r"
                     THEN SubSeq(raw, 1, Len(raw) - 1) ELSE raw
             rest == IF nl0 = 0 THEN <<>> ELSE SubSeq(stream, nl0 + 1, Len(stream))
             item == IF \E i \in 1..Len(raw) : raw[i] = "0xFF"
                     THEN [ok |-> FALSE, text |-> <<>>]
                     ELSE [ok |-> TRUE, text |-> line]
         IN  <<item>> \o Lines(rest)

\* str::starts_with("SSH")
StartsWithSSH(t) == Len(t) >= 3 /\ SubSeq(t, 1, 3) = SSH

IoError == [kind |-> "io", id |-> NoId]

UnexpectedEof == [kind |-> "eof", id |-> NoId]

RECURSIVE FindLine(_)
\* Iterator::find with the predicate of from_reader: the first line that is
\* an error or starts with "SSH"
FindLine(lines) ==
    IF lines = <<>> THEN [some |-> FALSE, item |-> [ok |-> TRUE, text |-> <<>>]]
    ELSE IF (IF lines[1].ok THEN StartsWithSSH(lines[1].text) ELSE TRUE)
    THEN [some |-> TRUE, item |-> lines[1]]
    ELSE FindLine(Tail(lines))

\* Id::from_reader
IdFromReader(stream) ==
    LET found == FindLine(Lines(stream))
    IN  IF ~found.some THEN UnexpectedEof
        ELSE IF ~found.item.ok THEN IoError
        ELSE FromStr(found.item.text)

RECURSIVE TrySkipWhileDropsErrors(_)
\* mutant: an unreadable line is skipped like any other line
TrySkipWhileDropsErrors(lines) ==
    IF lines = <<>> THEN <<>>
    ELSE IF ~lines[1].ok THEN TrySkipWhileDropsErrors(Tail(lines))
    ELSE IF ~StartsWithSSH(lines[1].text) THEN TrySkipWhileDropsErrors(Tail(lines))
    ELSE lines

RECURSIVE TrySkipWhile(_)
\* TryStreamExt::try_skip_while(|line| ok(!line.starts_with("SSH"))): lines
\* are dropped while the predicate holds; an error item ends the skipping and
\* is passed on
TrySkipWhile(lines) ==
    IF lines = <<>> THEN <<>>
    ELSE IF ~lines[1].ok THEN lines
    ELSE IF ~StartsWithSSH(lines[1].text) THEN TrySkipWhile(Tail(lines))
    ELSE lines

\* Id::from_async_reader: try_next().await? on the skipped stream
IdFromAsyncReader(stream) ==
    LET left == TrySkipWhile(Lines(stream))
    IN  IF left = <<>> THEN UnexpectedEof
        ELSE IF ~left[1].ok THEN IoError
        ELSE FromStr(left[1].text)

PartChars == {"a", "-", " "}

Parts == BufsUpTo(PartChars, MaxPartLen)

Ids == [protoversion : Parts, softwareversion : Parts,
        comments : {[some |-> FALSE, text |-> <<>>]}
                       \cup [some : {TRUE}, text : Parts]]

IdUnits == {SSH, <<"S">>, <<"-">>, <<" ">>, <<"a">>}

IdTexts == {Flatten(q) : q \in BufsUpTo(IdUnits, MaxIdUnits)}

StreamUnits == {<<"S", "S", "H", "-", "a", "-", "a">>, SSH, <<"x">>, <<"\n">>,
                <<"\r", "\n">>, <<"0xFF">>}

Streams == {Flatten(q) : q \in BufsUpTo(StreamUnits, MaxStreamUnits)}

InitId ==
    /\ PacketIdle
    /\ padv = PadIdle
    /\ arch = ArchIdle
    /\ nl = NlIdle
    /\ \/ \E id \in Ids : idv = [IdIdle EXCEPT !.op = "id", !.id = id]
       \/ \E t \in IdTexts : idv = [IdIdle EXCEPT !.op = "text", !.text = t]
       \/ \E b \in Streams : idv = [IdIdle EXCEPT !.op = "stream", !.stream = b]

\* id.to_string()
DisplayOp ==
    /\ idv.op = "id"
    /\ idv' = [idv EXCEPT !.op = "shown", !.text = Display(idv.id)]
    /\ UNCHANGED <<pvars, leg, aleg, padv, arch, nl, strm>>

\* text.parse::<Id>()
FromStrOp ==
    /\ idv.op \in {"shown", "text"}
    /\ idv' = [idv EXCEPT !.op = (IF idv.op = "shown" THEN "reparsed" ELSE "parsed"),
                          !.res = FromStr(idv.text)]
    /\ UNCHANGED <<pvars, leg, aleg, padv, arch, nl, strm>>

\* Id::from_reader(&mut BufReader::new(stream))
IdFromReaderOp ==
    /\ idv.op = "stream"
    /\ idv.sync.kind = "none"
    /\ idv' = [idv EXCEPT !.sync = IdFromReader(idv.stream)]
    /\ UNCHANGED <<pvars, leg, aleg, padv, arch, nl, strm>>

\* Id::from_async_reader(&mut BufReader::new(stream)).await
IdFromAsyncReaderOp ==
    /\ idv.op = "stream"
    /\ idv.async.kind = "none"
    /\ idv' = [idv EXCEPT !.async = IdFromAsyncReader(idv.stream)]
    /\ UNCHANGED <<pvars, leg, aleg, padv, arch, nl, strm>>

NextId == DisplayOp \/ FromStrOp \/ IdFromReaderOp \/ IdFromAsyncReaderOp

SpecId == InitId /\ [][NextId]_vars

----------------------------------------------------------------------------
(* Properties of the primitive wire types *)

\* C7: Bytes(b) is written as the 4-byte big-endian length of b followed by b,
\* and reading that back returns b, consuming exactly 4 + len(b) bytes.
BytesRoundTrip ==
    /\ arch.op \in {"bytes_written", "bytes_read"} =>
          /\ Len(arch.enc) = 4 + Len(arch.in)
          /\ arch.enc[1] = 0 /\ arch.enc[2] = 0 /\ arch.enc[3] = 0
          /\ arch.enc[4] = Len(arch.in)
          /\ \A i \in 1..Len(arch.in) : arch.enc[4 + i] = arch.in[i]
    /\ arch.op = "bytes_read" =>
          /\ arch.ok
          /\ arch.dec = arch.in
          /\ arch.n = 4 + Len(arch.in)

BytesRoundTrip_Witness ==
    /\ arch.op = "bytes_read"
    /\ Len(arch.in) = 3
    /\ arch.dec = arch.in

HighBit(byte) == (byte \div 128) % 2 = 1

\* C8: the content written for MpInt(b) is b when b is empty or its first byte
\* has the high bit clear and 0x00 ++ b when it is set, and an MpInt built from
\* that content is written as the same bytes.
MpIntCanonical ==
    LET expected == IF arch.in # <<>> /\ HighBit(arch.in[1])
                    THEN <<0>> \o arch.in ELSE arch.in
    IN  /\ arch.op \in {"mpint", "mpint_again", "mpint2", "mpint2_again"}
              => arch.content = expected
        /\ arch.op \in {"mpint", "mpint_again"}
              => Slice(arch.enc, 4, Len(arch.enc)) = expected
        /\ arch.op \in {"mpint_again", "mpint2_again"}
              => arch.enc2 = arch.enc

MpIntCanonical_Witness ==
    /\ arch.op = "mpint_again"
    /\ Len(arch.in) >= 2
    /\ arch.in[1] = 128
    /\ arch.enc2 = arch.enc

\* a buffer without its leading zero bytes
RECURSIVE StripZeros(_)
StripZeros(b) == IF b # <<>> /\ b[1] = 0 THEN StripZeros(Tail(b)) ELSE b

\* the minimal non-negative form of a buffer: no redundant leading zero byte,
\* and one 0x00 in front iff the first remaining byte has its high bit set
Minimal(b) ==
    LET v == StripZeros(b)
    IN  IF v # <<>> /\ HighBit(v[1]) THEN <<0>> \o v ELSE v

\* C17: the content written for an MpInt built from a buffer is the buffer
\* stripped of its redundant leading zero bytes, with one 0x00 in front iff
\* the first remaining byte has its high bit set, so that buffers differing
\* only in leading zero bytes are written as the same bytes.
MpIntStripsLeadingZeros ==
    /\ arch.op \in {"mpint", "mpint2"} => arch.content = Minimal(arch.in)
    /\ arch.op = "mpint" => arch.enc = BytesWrite(Minimal(arch.in))

\* the content of an MpInt over the input buffer: the buffer behind its guard
\* byte
Guarded(b) == IF b # <<>> /\ HighBit(b[1]) THEN <<0>> \o b ELSE b

\* C18: what is written for an MpInt is a 4-byte big-endian length n followed
\* by exactly n content bytes, the guard byte counted in n, and reading it
\* back as an MpInt succeeds, consumes all of its bytes and returns the same
\* content.
MpIntIsBytesEncoding ==
    /\ arch.op \in {"mpint", "mpint_read", "mpint2", "mpint2_read"} =>
          /\ Len(arch.enc) = 4 + Len(Guarded(arch.in))
          /\ Slice(arch.enc, 0, 4) = ToBeBytes(Len(Guarded(arch.in)))
          /\ Slice(arch.enc, 4, Len(arch.enc)) = Guarded(arch.in)
    /\ arch.op \in {"mpint_read", "mpint2_read"} =>
          /\ arch.ok
          /\ arch.n = Len(arch.enc)
          /\ arch.dec = Guarded(arch.in)

Range(q) == {q[i] : i \in 1..Len(q)}

\* C9: A.preferred_in(B) is the first name of A's iteration that occurs in
\* B's iteration, and None when they share no name; A.preferred_in(A) is A's
\* first name when A has one.
PreferredIsFirstShared ==
    nl.done =>
        LET A == Iter(nl.a)
            B == Iter(nl.b)
            shared == {i \in 1..Len(A) : A[i] \in Range(B)}
        IN  /\ shared = {} => ~nl.some
            /\ shared # {} =>
                  /\ nl.some
                  /\ \E i \in shared : nl.out = A[i] /\ \A j \in shared : i <= j
            /\ (nl.a = nl.b /\ A # <<>>) => (nl.some /\ nl.out = A[1])

PreferredIsFirstShared_Witness ==
    /\ nl.done
    /\ nl.some
    /\ Len(Iter(nl.a)) >= 2
    /\ nl.out = Iter(nl.a)[2]
    /\ Len(Iter(nl.b)) >= 2

\* the scalar value of the character that starts at b[i] and its width in
\* bytes, by the bit layout of UTF-8 (width 0: no character starts here)
Low6(x) == x % 64

CharAt(b, i) ==
    LET rest == Len(b) - i + 1
        c(k) == b[i + k]
        isCont(k) == c(k) \div 64 = 2
    IN  IF c(0) \div 128 = 0 THEN [width |-> 1, scalar |-> c(0)]
        ELSE IF c(0) \div 32 = 6 /\ rest >= 2 /\ isCont(1)
        THEN [width |-> 2, scalar |-> (c(0) % 32) * 64 + Low6(c(1))]
        ELSE IF c(0) \div 16 = 14 /\ rest >= 3 /\ isCont(1) /\ isCont(2)
        THEN [width |-> 3,
              scalar |-> (c(0) % 16) * 4096 + Low6(c(1)) * 64 + Low6(c(2))]
        ELSE IF c(0) \div 8 = 30 /\ rest >= 4 /\ isCont(1) /\ isCont(2) /\ isCont(3)
        THEN [width |-> 4,
              scalar |-> (c(0) % 8) * 262144 + Low6(c(1)) * 4096
                            + Low6(c(2)) * 64 + Low6(c(3))]
        ELSE [width |-> 0, scalar |-> 0]

\* the least scalar value a character of the given width may encode
MinScalar(width) == CASE width = 1 -> 0 [] width = 2 -> 128
                       [] width = 3 -> 2048 [] width = 4 -> 65536

RECURSIVE IsText(_, _)
\* b[i..] is a sequence of characters, each in its shortest form, none a
\* surrogate, none above U+10FFFF
IsText(b, i) ==
    IF i > Len(b) THEN TRUE
    ELSE LET ch == CharAt(b, i)
         IN  /\ ch.width > 0
             /\ ch.scalar >= MinScalar(ch.width)
             /\ ch.scalar <= 1114111
             /\ ~(ch.scalar >= 55296 /\ ch.scalar <= 57343)
             /\ IsText(b, i + ch.width)

\* C21: reading an Ascii or a StringAscii succeeds exactly when the stream
\* holds the declared bytes and each of them is ASCII (hence valid UTF-8),
\* reading a Utf8 exactly when it holds them and they are valid UTF-8; a read
\* that fails returns no value, and no value that was read panics when it is
\* dereferenced as text.
StringsValidated ==
    LET whole == arch.declared = Len(arch.in)
        ascii == \A i \in 1..Len(arch.in) : arch.in[i] \in 0..127
    IN  /\ arch.op \in {"ascii_read", "string_ascii_read"} =>
              /\ arch.ok <=> (whole /\ ascii)
              /\ arch.ok => arch.dec = arch.in /\ IsText(arch.dec, 1)
              /\ ~arch.ok => arch.dec = <<>>
        /\ arch.op = "utf8_read" =>
              /\ arch.ok <=> (whole /\ IsText(arch.in, 1))
              /\ arch.ok => arch.dec = arch.in
              /\ ~arch.ok => arch.dec = <<>>
        /\ arch.op = "deref" => ~arch.panicked /\ IsText(arch.content, 1)

StringsValidated_Witness ==
    /\ arch.op = "utf8_read"
    /\ ~arch.ok
    /\ arch.declared = Len(arch.in)
    /\ arch.in = <<65, 237, 160, 128>>

\* the positions where a token of the text starts, and where that token ends
TokenStarts(t) == {i \in 1..Len(t) : t[i] # "," /\ (i = 1 \/ t[i - 1] = ",")}

TokenEnd(t, i) ==
    CHOOSE j \in i..Len(t) :
        /\ \A k \in i..j : t[k] # ","
        /\ j = Len(t) \/ t[j + 1] = ","

\* the k-th token of the text, counted from the left
Token(t, k) ==
    LET i == CHOOSE i \in TokenStarts(t) :
                 Cardinality({j \in TokenStarts(t) : j < i}) = k - 1
    IN  SubSeq(t, i, TokenEnd(t, i))

\* C19: iterating a NameList yields exactly the non-empty comma-separated
\* tokens of its text in left-to-right order: as many elements as the text has
\* tokens, the k-th element being the k-th token; leading, trailing and
\* doubled commas contribute no element.
IterYieldsTokens ==
    nl.iterated =>
        /\ Len(nl.iter) = Cardinality(TokenStarts(nl.a))
        /\ \A k \in 1..Len(nl.iter) :
              /\ nl.iter[k] = Token(nl.a, k)
              /\ nl.iter[k] # <<>>
              /\ "," \notin Range(nl.iter[k])

IterYieldsTokens_Witness ==
    /\ nl.iterated
    /\ nl.built = "text"
    /\ nl.a = <<"a", ",", ",", "b">>
    /\ nl.iter = << <<"a">>, <<"b">> >>

\* C20: a NameList built from a sequence of comma-free names has as its text
\* the non-empty names joined with ',' (an empty name adds no comma), is
\* written as that text in ASCII behind its 4-byte length, and iterates as the
\* non-empty names in input order.
BuiltFromNonEmptyNames ==
    nl.built \in {"new", "from_iter"} =>
        LET kept == SelectSeq(nl.names, LAMBDA n : n # <<>>)
            commas == Cardinality({i \in 1..Len(nl.a) : nl.a[i] = ","})
        IN  /\ nl.a = Join(kept)
            /\ commas = (IF kept = <<>> THEN 0 ELSE Len(kept) - 1)
            /\ Slice(nl.enc, 0, 4) = ToBeBytes(Len(nl.a))
            /\ Len(nl.enc) = 4 + Len(nl.a)
            /\ \A i \in 1..Len(nl.a) : nl.enc[4 + i] = AsciiByte(nl.a[i])
            /\ nl.iterated => nl.iter = kept

----------------------------------------------------------------------------
(* Properties of CipherCore::padding *)

\* C4: without ETM, for any block size Bs and payload length L the padding p
\* returned by CipherCore::padding makes 4 + 1 + L + p a multiple of
\* max(Bs, 8).
PaddingAligns ==
    (padv.out # -1 /\ ~padv.etm)
        => (4 + 1 + padv.len + padv.out) % Max(padv.block_size, 8) = 0

\* C5: for every payload length and block size, with and without ETM, the
\* padding lies in 4..255 both as computed and as the byte returned.
PaddingInRange ==
    padv.out # -1
        => /\ padv.usize >= 4 /\ padv.usize <= 255
           /\ padv.out >= 4 /\ padv.out <= 255

\* the reference computation of the padding: the least p >= 0 that aligns
\* header + len + p, raised by one alignment unit when it is below the minimal
\* padding and again when the frame is below the minimal packet size
RefPadding(block_size, etm, len) ==
    LET align == Max(block_size, 8)
        header == IF etm THEN 1 ELSE 5
        p0 == CHOOSE p \in 0..(align - 1) : (header + len + p) % align = 0
        p1 == IF p0 < 4 THEN p0 + align ELSE p0
    IN  IF header + len + p1 < Max(block_size, 16) THEN p1 + align ELSE p1

\* C15: for every payload length, block size and ETM flag CipherCore::padding
\* returns the value of the reference computation, so that header + len +
\* padding is a multiple of max(block size, 8) and at least max(block size,
\* 16).
PaddingMatchesReference ==
    padv.out # -1 =>
        LET align == Max(padv.block_size, 8)
            total == (IF padv.etm THEN 1 ELSE 5) + padv.len + padv.out
        IN  /\ padv.out = RefPadding(padv.block_size, padv.etm, padv.len)
            /\ total % align = 0
            /\ total >= Max(padv.block_size, 16)

----------------------------------------------------------------------------
(* Properties of the packet codec *)

IdentityCipher(c) == c.key = 0 /\ c.mac_size = 0 /\ ~c.comp

\* C1: a Packet written through an identity cipher (no encryption, no
\* compression, MAC size 0) and read back through the same cipher is returned
\* with exactly the original payload.
RoundTripIdentity ==
    (rpc = "done" /\ forged = <<>> /\ IdentityCipher(cipher))
        => rres = [kind |-> "ok", payload |-> payload]

RoundTripIdentity_Witness ==
    /\ rpc = "done"
    /\ forged = <<>>
    /\ IdentityCipher(cipher)
    /\ Len(payload) >= 2
    /\ rres.kind = "ok"

\* C2: when the decoded packet_length exceeds PACKET_MAX_SIZE the read ends
\* with the length error, and the only read made on the source is the first
\* one, of the block that held the length field.
LengthCapStopsReading ==
    /\ rlen > PACKET_MAX_SIZE
        => /\ rpc = "done"
           /\ rres.kind = "length"
           /\ reads = <<cipher.block_size>>
           /\ rpos = cipher.block_size
           /\ rmac = <<>>
    /\ leg.len > PACKET_MAX_SIZE
        => /\ leg.pc = "done"
           /\ leg.res = "length"
           /\ leg.reads = <<4>>
           /\ leg.pos = 4

LengthCapStopsReading_Witness ==
    /\ rlen = 70000
    /\ rres.kind = "length"
    /\ Len(wire) > cipher.block_size
    /\ leg.len = 70000
    /\ leg.res = "length"

\* the wire bytes that hold the (compressed) payload, and those of the MAC
InPayloadBytes(i) == i > 5 /\ i <= 5 + Len(Compress(cipher, payload))
InMacBytes(i) == i > Len(wire) - cipher.mac_size /\ i <= Len(wire)

WriteLayout ==
    (wpc = "done" /\ forged = <<>> /\ ~cipher.etm /\ ~cipher.comp) =>
        LET L == Len(payload)
            p == Padding(cipher.block_size, FALSE, L)
            M == cipher.mac_size
            plain == Decrypt(cipher, Slice(wire, 0, 4 + 1 + L + p))
        IN  /\ Len(wire) = 4 + 1 + L + p + M
            /\ written = <<4 + 1 + L + p, M>>
            /\ Slice(plain, 0, 4) = ToBeBytes(1 + L + p)
            /\ plain[5] = p
            /\ Slice(plain, 5, 5 + L) = payload
            /\ Slice(wire, 4 + 1 + L + p, Len(wire)) = Seal(cipher, plain, wseq)

WriteLayout_Witness ==
    /\ wpc = "done"
    /\ forged = <<>>
    /\ ~cipher.etm
    /\ ~cipher.comp
    /\ cipher.mac_size > 0
    /\ Len(payload) >= 1

\* C10: in ETM mode open is called on the buffer as received (length field and
\* ciphertext) before any decrypt; decrypt is then called once, on bytes [4..],
\* and only if open succeeded.
EtmOpenBeforeDecrypt ==
    cipher.etm =>
        /\ \A i \in 1..Len(rcalls) :
              rcalls[i].op = "decrypt" =>
                  /\ i = 2
                  /\ rcalls[1] = Call("open", 0, 4 + rlen, rseq)
                  /\ rcalls[2] = Call("decrypt", 4, 4 + rlen, -1)
                  /\ Open(cipher, Slice(wire, 0, 4 + rlen), rmac, rseq)
        /\ rres.kind = "mac" => \A i \in 1..Len(rcalls) : rcalls[i].op # "decrypt"
        /\ rpc = "verify1" => rbuf = Slice(wire, 0, 4 + rlen)

EtmOpenBeforeDecrypt_Witness ==
    /\ cipher.etm
    /\ cipher.mac_size > 0
    /\ Len(rcalls) >= 2
    /\ rcalls[2].op = "decrypt"

\* C11: without ETM the reader decrypts the first block_size bytes before it
\* takes packet_length from them, later decrypts exactly the bytes from
\* block_size to the end of the frame (so each frame byte is decrypted once),
\* and only then calls open, on the whole decrypted frame, length field
\* included.
NonEtmDecryptBeforeOpen ==
    ~cipher.etm =>
        /\ rpc = "parse_len" =>
              /\ rcalls = <<Call("decrypt", 0, cipher.block_size, -1)>>
              /\ rbuf = Decrypt(cipher, Slice(wire, 0, cipher.block_size))
              /\ rlen = 0
        /\ rpc \in {"read_rest", "read_mac", "verify1"} =>
              rcalls = <<Call("decrypt", 0, cipher.block_size, -1)>>
        /\ \A i \in 1..Len(rcalls) :
              rcalls[i].op = "open" =>
                  /\ i = 3
                  /\ rcalls[1] = Call("decrypt", 0, cipher.block_size, -1)
                  /\ rcalls[2] = Call("decrypt", cipher.block_size, 4 + rlen, -1)
                  /\ rcalls[3] = Call("open", 0, 4 + rlen, rseq)
                  /\ rbuf = Decrypt(cipher, Slice(wire, 0, 4 + rlen))
        /\ rpc = "verify2" => rbuf = Decrypt(cipher, Slice(wire, 0, 4 + rlen))

NonEtmDecryptBeforeOpen_Witness ==
    /\ ~cipher.etm
    /\ cipher.key # 0
    /\ cipher.mac_size > 0
    /\ 4 + rlen > cipher.block_size
    /\ Len(rcalls) >= 3
    /\ rcalls[3].op = "open"
    /\ rres.kind = "ok"

Ops(calls) == [i \in 1..Len(calls) |-> calls[i].op]

IsPrefix(s, t) == Len(s) <= Len(t) /\ s = SubSeq(t, 1, Len(s))

\* the writer has not emitted a byte before its five cipher calls were made,
\* and it emits the frame first and the MAC second
EmitsFrameThenMac ==
    /\ Len(wcalls) < 5 => wire = <<>> /\ written = <<>>
    /\ IsPrefix(written, <<Len(wbuf), cipher.mac_size>>)
    /\ wpc = "done" => wire = wbuf \o wmac /\ Len(written) = 2

\* C12 as stated: the writer's cipher calls are compress, padding, pad,
\* encrypt, seal in this order in ETM and in non-ETM mode, and the frame is
\* written before the MAC.
WriteEncryptsBeforeSeal ==
    forged = <<>> =>
        /\ IsPrefix(Ops(wcalls), <<"compress", "padding", "pad", "encrypt", "seal">>)
        /\ EmitsFrameThenMac

\* C12 (amended): the writer's cipher calls are compress, padding, pad, then
\* in ETM mode encrypt of the bytes after the length field followed by seal
\* over the encrypted frame, and without ETM seal over the plaintext frame
\* followed by encrypt of the whole frame; the frame is written before the
\* MAC.
WriteOrderByMacMode ==
    forged = <<>> =>
        LET plain == Frame(Pad(Compress(cipher, payload), wpad, fill))
        IN  /\ IsPrefix(Ops(wcalls),
                  IF cipher.etm
                  THEN <<"compress", "padding", "pad", "encrypt", "seal">>
                  ELSE <<"compress", "padding", "pad", "seal", "encrypt">>)
            /\ Len(wcalls) = 5 =>
                  IF cipher.etm
                  THEN /\ wcalls[4] = Call("encrypt", 4, Len(plain), -1)
                       /\ wcalls[5] = Call("seal", 0, Len(plain), wseq)
                       /\ wbuf = Slice(plain, 0, 4)
                                   \o Encrypt(cipher, Slice(plain, 4, Len(plain)))
                       /\ wmac = Seal(cipher, wbuf, wseq)
                  ELSE /\ wcalls[4] = Call("seal", 0, Len(plain), wseq)
                       /\ wcalls[5] = Call("encrypt", 0, Len(plain), -1)
                       /\ wbuf = Encrypt(cipher, plain)
                       /\ wmac = Seal(cipher, plain, wseq)
            /\ EmitsFrameThenMac

WriteOrderByMacMode_Witness ==
    /\ forged = <<>>
    /\ ~cipher.etm
    /\ cipher.key # 0
    /\ cipher.mac_size > 0
    /\ wpc = "done"
    /\ Len(payload) >= 1
    /\ wmac # Seal(cipher, wbuf, wseq)

\* the frame as the reader holds it once it is decrypted: the length field is
\* sent in clear in ETM mode and encrypted otherwise
PlainFrame ==
    IF cipher.etm
    THEN Slice(wire, 0, 4) \o Decrypt(cipher, Slice(wire, 4, 4 + rlen))
    ELSE Decrypt(cipher, Slice(wire, 0, 4 + rlen))

\* the reader has decrypted the frame and verified its MAC
PastVerification ==
    /\ rpc \in {"decompress", "done"}
    /\ Len(rcalls) >= (IF cipher.etm THEN 2 ELSE 3)
    /\ rres.kind # "mac"

LengthCapBoundsFrame ==
    /\ ralloc <= PACKET_MAX_SIZE
    /\ (rlen > PACKET_MAX_SIZE - 4 /\ rpc # "parse_len") =>
          /\ rpc = "done"
          /\ rres.kind = "length"
          /\ ralloc = cipher.block_size

\* a conforming write of a zero-length payload, uncompressed, under a cipher
\* of block size 8 without a MAC, once the padding has been computed
EmptyPayloadBlock8 ==
    /\ forged = <<>>
    /\ payload = <<>>
    /\ ~cipher.comp
    /\ cipher.block_size = 8
    /\ cipher.mac_size = 0
    /\ wpc \notin {"compress", "padding"}

\* C16 as stated: for a zero-length payload, block size 8 and mac_size 0 the
\* padding length of the written frame is 7 and the bytes after the length
\* field total 8.
EmptyPayloadPaddingIs7 ==
    EmptyPayloadBlock8 =>
        /\ wpad = 7
        /\ wpc = "done" => Len(wire) - 4 = 8

\* C16 (amended): for a zero-length payload, block size 8 and mac_size 0 the
\* padding length of the written frame is 11 without ETM and 15 with ETM, and
\* the bytes after the length field total 12 without ETM and 16 with ETM.
EmptyPayloadPadding ==
    EmptyPayloadBlock8 =>
        /\ wpad = (IF cipher.etm THEN 15 ELSE 11)
        /\ wpc = "done" =>
              /\ Len(wire) - 4 = 1 + 0 + wpad
              /\ Len(wire) - 4 = (IF cipher.etm THEN 16 ELSE 12)

EmptyPayloadPadding_Witness ==
    /\ EmptyPayloadBlock8
    /\ cipher.etm
    /\ wpc = "done"
    /\ Len(wire) = 20

\* C22: on every source and cipher, from_reader and from_async_reader of
\* packet.rs make the same reads in the same order and the same cipher calls,
\* and end with the same fields or the same error; the asynchronous reader is
\* suspended at its reads of the source and nowhere else.
SyncAsyncAgree ==
    /\ aleg.awaits = aleg.reads
    /\ leg.pc = "done" =>
          /\ IsPrefix(aleg.reads, leg.reads)
          /\ IsPrefix(aleg.calls, leg.calls)
    /\ (leg.pc = "done" /\ aleg.pc = "done") =>
          [aleg EXCEPT !.awaits = <<>>] = leg

SyncAsyncAgree_Witness ==
    /\ leg.pc = "done"
    /\ aleg.pc = "done"
    /\ aleg.res = "ok"
    /\ Len(aleg.payload) >= 2
    /\ Len(aleg.awaits) = 5
    /\ cipher.mac_size > 0

\* C23: a frame whose decrypted padding_length byte is below 4 ends the read
\* with the length error, and no Packet is returned for it.
ShortPaddingRejected ==
    (PastVerification /\ rlen >= 1 /\ PlainFrame[5] < MIN_PAD_SIZE) =>
        /\ rpc = "done"
        /\ rres.kind = "length"

----------------------------------------------------------------------------
(* Properties of Id *)

HasChar(t, ch) == \E i \in 1..Len(t) : t[i] = ch

\* C24 as stated: for every Id with non-empty protoversion and
\* softwareversion and any optional comments, parsing its Display string
\* returns an Id equal to it.
IdReparsesWhenNonEmpty ==
    (idv.op = "reparsed" /\ idv.id.protoversion # <<>>
                        /\ idv.id.softwareversion # <<>>)
        => idv.res = [kind |-> "ok", id |-> idv.id]

\* C24 (amended): for every Id whose protoversion is non-empty and holds
\* neither '-' nor ' ', whose softwareversion is non-empty and holds no ' ',
\* and with any optional comments, parsing its Display string returns an Id
\* equal to it.
IdReparses ==
    (/\ idv.op = "reparsed"
     /\ idv.id.protoversion # <<>>
     /\ idv.id.softwareversion # <<>>
     /\ ~HasChar(idv.id.protoversion, "-")
     /\ ~HasChar(idv.id.protoversion, " ")
     /\ ~HasChar(idv.id.softwareversion, " "))
        => idv.res = [kind |-> "ok", id |-> idv.id]

IdReparses_Witness ==
    /\ idv.op = "reparsed"
    /\ idv.id.protoversion = <<"a">>
    /\ idv.id.softwareversion = <<"a", "-">>
    /\ idv.id.comments = [some |-> TRUE, text |-> <<" ", "-">>]
    /\ idv.res.kind = "ok"

\* the part of a text before its first space, and what follows that space
BeforeSpace(t) ==
    IF HasChar(t, " ")
    THEN SubSeq(t, 1, (CHOOSE i \in 1..Len(t) : t[i] = " "
                          /\ ~HasChar(SubSeq(t, 1, i - 1), " ")) - 1)
    ELSE t

AfterSpace(t) == SubSeq(t, Len(BeforeSpace(t)) + 2, Len(t))

\* the positions k of an identifier at which it reads SSH-<p>-<s>, the second
\* dash at k, p the non-empty dash-free text before it and s the non-empty
\* text after it
SecondDash(w) ==
    {k \in 6..(Len(w) - 1) :
        /\ SubSeq(w, 1, 4) = <<"S", "S", "H", "-">>
        /\ w[k] = "-"
        /\ ~HasChar(SubSeq(w, 5, k - 1), "-")}

\* C25: Id::from_str returns BadIdentifer and no Id for every text whose part
\* before the first space is not SSH-<protoversion>-<softwareversion> with
\* both fields non-empty, the empty text included; it accepts every text of
\* that form, protoversion being the text between the first two dashes,
\* softwareversion the rest up to the first space, and everything after that
\* space the comments.
FromStrAcceptsTheForm ==
    idv.op = "parsed" =>
        LET w == BeforeSpace(idv.text)
        IN  IF SecondDash(w) = {}
            THEN idv.res = [kind |-> "bad_identifier", id |-> NoId]
            ELSE \E k \in SecondDash(w) :
                    /\ idv.res.kind = "ok"
                    /\ idv.res.id.protoversion = SubSeq(w, 5, k - 1)
                    /\ idv.res.id.softwareversion = SubSeq(w, k + 1, Len(w))
                    /\ idv.res.id.comments.some = HasChar(idv.text, " ")
                    /\ idv.res.id.comments.text
                          = (IF HasChar(idv.text, " ") THEN AfterSpace(idv.text)
                             ELSE <<>>)

FromStrAcceptsTheForm_Witness ==
    /\ idv.op = "parsed"
    /\ idv.text = <<"S", "S", "H", "-", "a", "-", "a", " ">>
    /\ idv.res.kind = "ok"
    /\ idv.res.id.comments = [some |-> TRUE, text |-> <<>>]

\* C26: on every stream Id::from_reader and Id::from_async_reader return
\* equal results: with k the first line that is unreadable or starts with
\* "SSH", both return UnexpectedEof when there is no such line, the I/O error
\* when line k is unreadable, and otherwise what from_str returns on line k;
\* the lines before k are skipped.
IdReadersAgree ==
    (idv.op = "stream" /\ idv.sync.kind # "none" /\ idv.async.kind # "none") =>
        LET L == Lines(idv.stream)
            stops == {k \in 1..Len(L) : ~L[k].ok \/ StartsWithSSH(L[k].text)}
            expected ==
                IF stops = {} THEN UnexpectedEof
                ELSE LET k == CHOOSE k \in stops : \A j \in stops : k <= j
                     IN  IF ~L[k].ok THEN IoError ELSE FromStr(L[k].text)
        IN  /\ idv.sync = idv.async
            /\ idv.sync = expected

IdReadersAgree_Witness ==
    /\ idv.op = "stream"
    /\ idv.stream = <<"0xFF", "\n", "S", "S", "H", "-", "a", "-", "a">>
    /\ idv.sync.kind = "io"
    /\ idv.async.kind = "io"

\* a stream with lines to skip before the identifier is read by both
IdReadersSkip_Reached ==
    /\ idv.op = "stream"
    /\ idv.stream = <<"x", "\n", "S", "S", "H", "-", "a", "-", "a", "\r", "\n">>
    /\ idv.sync.kind = "ok"
    /\ idv.async = idv.sync

\* the payloads written to the stream so far, once the writer has returned
Sent == strm.sent \o <<payload>>

\* C27: frames are read one at a time with nothing carried over: each read of
\* a stream holding the frames of P1..Pn returns Ok with the next payload in
\* writing order, having consumed exactly 4 + packet_length + mac_size bytes
\* from where it began, and the read of Pn leaves the stream empty.
StreamReadsInOrder ==
    /\ strm.got = SubSeq(strm.sent, 1, Len(strm.got))
    /\ rpc = "done" =>
          /\ rres = [kind |-> "ok", payload |-> Sent[Len(strm.got) + 1]]
          /\ rpos - strm.start = 4 + rlen + cipher.mac_size
          /\ Len(strm.got) + 1 = Len(Sent) => rpos = Len(wire)

StreamReadsInOrder_Witness ==
    /\ cipher.mac_size = 2
    /\ cipher.comp
    /\ strm.sent = << <<255>> >>
    /\ payload = <<>>
    /\ strm.got = << <<255>> >>
    /\ rpc = "done"
    /\ rres = [kind |-> "ok", payload |-> <<>>]
    /\ rpos = Len(wire)

\* the calls of one cipher operation among `calls`
CallsOf(calls, op) == {i \in 1..Len(calls) : calls[i].op = op}

\* the reader has read the MAC and gone through `open` and `decrypt`
VerificationDone ==
    \/ rpc \in {"split", "decompress"}
    \/ rpc = "done" /\ rres.kind \in {"ok", "mac", "cipher"}
    \/ rpc = "done" /\ rres.kind = "length" /\ ~TooLarge(rlen)

\* C28: a write calls seal exactly once and a read that gets to the MAC
\* verification calls open exactly once, neither ever more than once, each
\* with the seq its caller passed; a read that ends on the packet_length cap
\* has called neither open nor decompress.
CipherCalledOncePerPacket ==
    /\ Cardinality(CallsOf(wcalls, "seal")) <= 1
    /\ Cardinality(CallsOf(rcalls, "open")) <= 1
    /\ \A i \in CallsOf(wcalls, "seal") : wcalls[i].seq = wseq
    /\ \A i \in CallsOf(rcalls, "open") : rcalls[i].seq = rseq
    /\ wpc \in {"frame", "mac", "done"} => Cardinality(CallsOf(wcalls, "seal")) = 1
    /\ VerificationDone => Cardinality(CallsOf(rcalls, "open")) = 1
    /\ (rpc = "done" /\ rres.kind = "length" /\ TooLarge(rlen)) =>
          /\ CallsOf(rcalls, "open") = {}
          /\ CallsOf(rcalls, "decompress") = {}

CipherCalledOncePerPacket_Witness ==
    /\ wseq = 1
    /\ rseq = 1
    /\ rpc = "done"
    /\ rres.kind = "ok"
    /\ \E i \in CallsOf(wcalls, "seal") : wcalls[i].seq = 1
    /\ \E i \in CallsOf(rcalls, "open") : rcalls[i].seq = 1

\* a read stopped by the cap, with the length decrypted and nothing else called
CapBeforeOpen_Reached ==
    /\ rpc = "done"
    /\ rres.kind = "length"
    /\ TooLarge(rlen)
    /\ ~cipher.etm
    /\ Ops(rcalls) = <<"decrypt">>

\* C29: under a block size of at least 8, a read of a frame whose declared
\* packet_length is within [0, PACKET_MAX_SIZE] ends with a Packet or an
\* error, never with a panic, in from_async_reader as in the field-by-field
\* readers.
ReadNeverPanics ==
    cipher.block_size >= 8 =>
        /\ (rpc = "done" /\ rlen <= PACKET_MAX_SIZE) => rres.kind # "panic"
        /\ (leg.pc = "done" /\ leg.len <= PACKET_MAX_SIZE) => leg.res # "panic"
        /\ (aleg.pc = "done" /\ aleg.len <= PACKET_MAX_SIZE) => aleg.res # "panic"

\* C30: every frame the writer emits passes the reader's length checks: its
\* packet_length is at most PACKET_MAX_SIZE and its padding_length at most
\* packet_length - 1.
WrittenFrameAccepted ==
    padv.packet_length # -1 =>
        /\ ~TooLarge(padv.packet_length)
        /\ ~PadTooLarge(padv.out, padv.packet_length)

====
